---- MODULE Spec2Model ----
(***************************************************************************)
(* Model of the FF_Stake transaction scripts (ff_deposit.py and            *)
(* ff_cooldown.py): the per-wallet nonce manager, the fee helpers and the  *)
(* replace-by-fee sender send_with_rbf, driven by the main loop over the   *)
(* wallets of keys.txt.                                                    *)
(***************************************************************************)
EXTENDS Integers, Sequences, FiniteSets, TLC

VARIABLES
    pc,           \* position of the script: start, wallet, op, sign, poll, done
    script,       \* which script runs: "deposit" or "cooldown"
    max_retries,  \* the max_retries argument every send_with_rbf call receives
    base_fees,    \* main(): base_fees, computed once by suggest_fees
    mgrs,         \* NonceManager._nonce of every wallet constructed so far
    last_read,    \* value _read_pending returned for the current wallet
    plan,         \* operations still to run for the current wallet (head first)
    tx,           \* send_with_rbf: the draft tx (nonce and fee fields)
    attempt,      \* send_with_rbf: attempt
    elapsed,      \* send_with_rbf: time.time() - t0 of the current round
    rcpt,         \* send_with_rbf: answer of the last get_transaction_receipt
    sent,         \* history: every transaction broadcast by the current call
    outcome,      \* how the current / last send_with_rbf call ended
    returned,     \* value the last send_with_rbf call returned (tx_hex)
    taken,        \* history: values NonceManager.next returned in this call
    backs,        \* history: number of NonceManager.back calls in this call
    bumps,        \* history: number of bump_fees calls in this call
    prev,         \* history: nonce and outcome of the previous call, same wallet
    max_wait,     \* the max_wait argument of send_with_rbf
    bump_pct,     \* the bump_pct argument of send_with_rbf
    mined,        \* the node: identifier of the call's transaction it has mined
    asked,        \* history: identifier the last get_transaction_receipt used
    calc,         \* fee helper under test (used by SpecFees only)
    nm            \* a NonceManager under test (used by SpecNonce only)

vars == <<pc, script, max_retries, base_fees, mgrs, last_read, plan, tx,
          attempt, elapsed, rcpt, sent, outcome, returned, taken, backs,
          bumps, prev, max_wait, bump_pct, mined, asked, calc, nm>>

-----------------------------------------------------------------------------
(* Program constants *)

MAX_WAIT == 60
MAX_RETRIES == 3
BUMP_PCT == 20
POLL_SLEEP == 5

(* Bounds of the model *)

NumWallets == 2
MaxPending == 1
MaxBaseFee == 3
MaxPriority == 5
MaxPct == 100
MaxBumps == 3
MaxCalls == 5

Min(a, b) == IF a < b THEN a ELSE b
Max(a, b) == IF a > b THEN a ELSE b

\* max_retries is a parameter of send_with_rbf; the scripts pass MAX_RETRIES,
\* a value edited in the file.  Budgets 0..MAX_RETRIES are modelled.
RetryBudgets == 0..MAX_RETRIES

\* Pending transaction counts the node may report for a wallet.
PendingCounts == {0, MaxPending}

\* baseFeePerGas[-1] of fee_history, and gas_price, in wei.
BaseFeeValues == {0, MaxBaseFee}

\* Web3.to_wei(float(priority_gwei), "gwei"): the priority tip in wei.
PriorityValues == {0, MaxPriority}

Scripts == {"deposit", "cooldown"}

-----------------------------------------------------------------------------
(* NonceManager *)

\* NonceManager.next: the value returned is the cursor, the cursor moves on.
NextReturn(n) == n
NextCursor(n) == n + 1

\* back() without the floor at zero.
BackCursor_NoFloor(n) == n - 1

\* NonceManager.back
BackCursor(n) == Max(0, n - 1)

Cur == mgrs[Len(mgrs)]
\* One cursor shared by all nonce managers (a class attribute).
SetCur_Shared(v) == [w \in DOMAIN mgrs |-> v]

SetCur(v) == [mgrs EXCEPT ![Len(mgrs)] = v]

-----------------------------------------------------------------------------
(* Fee helpers *)

\* suggest_fees with the priority margin left out of maxFeePerGas.
SuggestFees_BaseOnly(feeHistoryOk, histBase, gasPrice, priority) ==
    LET base == IF feeHistoryOk THEN histBase ELSE gasPrice
    IN  [maxPriorityFeePerGas |-> priority,
         maxFeePerGas         |-> base]

\* suggest_fees: base fee from fee_history, or from gas_price when it raises.
SuggestFees(feeHistoryOk, histBase, gasPrice, priority) ==
    LET base == IF feeHistoryOk THEN histBase ELSE gasPrice
    IN  [maxPriorityFeePerGas |-> priority,
         maxFeePerGas         |-> base + priority * 2]

\* The multiplier taken as pct/100 instead of 1 + pct/100.
BumpValue_PctOnly(x, pct) == (x * pct) \div 100

\* int(Decimal(x) * (1 + pct/100)) for x >= 0 and an integer pct.
BumpValue(x, pct) == (x * (100 + pct)) \div 100

\* bump_fees
BumpFees(fees, pct) ==
    [maxPriorityFeePerGas |-> BumpValue(fees.maxPriorityFeePerGas, pct),
     maxFeePerGas         |-> BumpValue(fees.maxFeePerGas, pct)]

-----------------------------------------------------------------------------
(* send_with_rbf *)

NoTx == [data |-> "none", nonce |-> 0,
         maxPriorityFeePerGas |-> 0, maxFeePerGas |-> 0]
NoPrev == [has |-> FALSE, nonce |-> 0, outcome |-> "None"]

\* tx = dict(tx_fields); tx["nonce"] = nonce_mgr.next()
DraftTx(kind, fees, n) ==
    [data |-> kind, nonce |-> n,
     maxPriorityFeePerGas |-> fees.maxPriorityFeePerGas,
     maxFeePerGas         |-> fees.maxFeePerGas]

FeesOf(t) == [maxPriorityFeePerGas |-> t.maxPriorityFeePerGas,
              maxFeePerGas         |-> t.maxFeePerGas]

\* A replacement that moves on to the following nonce.
ReplacementTx_FreshNonce(t, fees) ==
    [t EXCEPT !.nonce = t.nonce + 1,
              !.maxPriorityFeePerGas = fees.maxPriorityFeePerGas,
              !.maxFeePerGas         = fees.maxFeePerGas]

\* tx["maxPriorityFeePerGas"] = ...; tx["maxFeePerGas"] = ...: the nonce stays.
ReplacementTx(t, fees) ==
    [t EXCEPT !.maxPriorityFeePerGas = fees.maxPriorityFeePerGas,
              !.maxFeePerGas         = fees.maxFeePerGas]

\* tx aliasing the caller's dictionary instead of copying it.
CallerFees_Aliased(callers, t) == FeesOf(t)

\* The caller's fee dictionary after send_with_rbf wrote fees into its tx:
\* tx = dict(tx_fields) is a copy (and main passes dict(base_fees)), so the
\* caller's dictionary keeps its values.
CallerFees(callers, t) == callers

\* tx_hash of a broadcast: determined by the signed content.
TxId(w, t) == <<w, t.data, t.nonce, t.maxPriorityFeePerGas, t.maxFeePerGas>>

\* tx_hex computed once, from the first broadcast.
LastTxHex_First == TxId(Len(mgrs), sent[1])

\* tx_hex: the hash of the transaction broadcast last.
LastTxHex == TxId(Len(mgrs), sent[Len(sent)])

\* `return tx_hex`, on a receipt of either status and on giving up alike: the
\* value returned does not depend on how the call ended.
ReturnValue(hex, how) == hex

\* The retry budget compared one too late / one too early.
BudgetExhausted_OneMore(att, budget) == att > budget + 1
BudgetExhausted_AtBudget(att, budget) == att >= budget

\* `attempt > max_retries` after attempt += 1
BudgetExhausted(att, budget) == att > budget

\* What get_transaction_receipt may do: raise, return None, return a receipt
\* without status, or a receipt with status 1 / 0.
Answers == {"error", "absent", "no_status", "success", "failure"}

\* Only a success receipt taken as final.
Definitive_SuccessOnly(a) == a = "success"

\* The hasattr(rcpt, "status") test left out.
Definitive_NotNone(a) == a \notin {"error", "absent"}

\* rcpt is not None and hasattr(rcpt, "status"): both branches return.
Definitive(a) == a \in {"success", "failure"}

\* No identifier: nothing of the call mined, no receipt asked for yet.
NoId == <<>>

\* The receipt of the first broadcast, whatever the round.
QueryId_First == TxId(Len(mgrs), sent[1])

\* tx_hash, the argument of get_transaction_receipt: assigned from
\* send_raw_transaction in every round of the loop.
QueryId == TxId(Len(mgrs), sent[Len(sent)])

\* What get_transaction_receipt(q) can give when m is the transaction of the
\* call known to be mined (NoId: none yet).  The attempts of a call share a
\* nonce, so at most one of them is ever mined: once another one is, q has no
\* receipt and the answer is an exception, None, or an object without a
\* status.  Otherwise q may be mined by now and any answer is possible.
NodeAnswers(q, m) ==
    IF m \in {NoId, q} THEN Answers ELSE Answers \ {"success", "failure"}

Confirmed == {"ConfirmedSuccess", "ConfirmedFailure"}
Terminal == Confirmed \cup {"Abandoned"}

\* The operations ensure_infinite_approve / step_deposit / step_cooldown run.
Plans(s) ==
    IF s = "deposit"
    THEN {<<>>, <<"deposit">>, <<"approve_max", "deposit">>,
          <<"approve_zero", "approve_max", "deposit">>}
    ELSE {<<>>, <<"cooldown">>}

\* A fee calculation on its own: the inputs of suggest_fees (src tells whether
\* fee_history answered), the bump percentage, the current bid, the bid
\* before the last bump, and the number of bumps applied.
NoCalc == [stage |-> "idle", src |-> "none", hist |-> 0, gas |-> 0,
           priority |-> 0, pct |-> 0, bid |-> FeesOf(NoTx),
           before |-> FeesOf(NoTx), n |-> 0]

\* Bump percentages tried on the fee helpers: 1, the scripts' own, a large one.
Pcts == {1, BUMP_PCT, MaxPct}

CalcInputs ==
    {[stage |-> "input", src |-> s, hist |-> hb, gas |-> gp, priority |-> p,
      pct |-> q, bid |-> FeesOf(NoTx), before |-> FeesOf(NoTx), n |-> 0] :
        s \in {"fee_history", "gas_price"}, hb \in 0..MaxBaseFee,
        gp \in BaseFeeValues, p \in 0..MaxPriority, q \in Pcts}

\* A nonce manager on its own: its cursor, the cursor before the last call,
\* the last call, the pending count last read, and the number of calls made.
NoNm == [cursor |-> 0, before |-> 0, op |-> "none", read |-> 0, calls |-> 0]

EngineInit ==
    /\ pc = "start"
    /\ script = "deposit"
    /\ max_retries = 0
    /\ base_fees = FeesOf(NoTx)
    /\ mgrs = <<>>
    /\ last_read = 0
    /\ plan = <<>>
    /\ tx = NoTx
    /\ attempt = 0
    /\ elapsed = 0
    /\ rcpt = "none"
    /\ sent = <<>>
    /\ outcome = "None"
    /\ returned = <<>>
    /\ taken = <<>>
    /\ backs = 0
    /\ bumps = 0
    /\ prev = NoPrev
    /\ max_wait = MAX_WAIT
    /\ bump_pct = BUMP_PCT
    /\ mined = NoId
    /\ asked = NoId

Init == EngineInit /\ calc = NoCalc /\ nm = NoNm

opvars == <<tx, attempt, elapsed, rcpt, sent, outcome, returned, taken,
            backs, bumps, prev>>

\* main(): build_w3, load_keys, base_fees = suggest_fees(...)
Startup ==
    /\ pc = "start"
    /\ \E s \in Scripts, r \in RetryBudgets, ok \in BOOLEAN,
          hb \in BaseFeeValues, gp \in BaseFeeValues, p \in PriorityValues :
          /\ script' = s
          /\ max_retries' = r
          /\ base_fees' = SuggestFees(ok, hb, gp, p)
    /\ pc' = "wallet"
    /\ UNCHANGED <<mgrs, last_read, plan, calc, nm, max_wait, bump_pct,
                   mined, asked>>
    /\ UNCHANGED opvars

\* main(): one iteration of the wallet loop up to the first send_with_rbf
\* call: NonceManager(w3, address), the balance checks and the allowance
\* branches decide which operations run (none: the wallet is skipped).
WalletStart ==
    /\ pc = "wallet"
    /\ Len(mgrs) < NumWallets
    /\ \E n \in PendingCounts, pl \in Plans(script) :
          /\ mgrs' = Append(mgrs, n)
          /\ last_read' = n
          /\ plan' = pl
          /\ pc' = IF pl = <<>> THEN "wallet" ELSE "op"
    /\ tx' = NoTx
    /\ attempt' = 0
    /\ elapsed' = 0
    /\ rcpt' = "none"
    /\ sent' = <<>>
    /\ outcome' = "None"
    /\ returned' = <<>>
    /\ taken' = <<>>
    /\ backs' = 0
    /\ bumps' = 0
    /\ prev' = NoPrev
    /\ mined' = NoId
    /\ asked' = NoId
    /\ UNCHANGED <<script, max_retries, base_fees, calc, nm, max_wait, bump_pct>>

\* main(): the loop over the wallets is over.
Finish ==
    /\ pc = "wallet"
    /\ Len(mgrs) = NumWallets
    /\ pc' = "done"
    /\ UNCHANGED <<script, max_retries, base_fees, mgrs, last_read, plan, calc, nm, max_wait, bump_pct,
                   mined, asked>>
    /\ UNCHANGED opvars

\* send_with_rbf, up to the loop: take the nonce, copy the fees.
\* estimate_gas_safe always gets a fallback_gas here, so it never raises; the
\* gas limit plays no part in the nonce and fee bookkeeping and is left out.
SendStart ==
    /\ pc = "op"
    /\ tx' = DraftTx(Head(plan), base_fees, NextReturn(Cur))
    /\ mgrs' = SetCur(NextCursor(Cur))
    /\ attempt' = 0
    /\ elapsed' = 0
    /\ rcpt' = "none"
    /\ sent' = <<>>
    /\ outcome' = "None"
    /\ returned' = <<>>
    /\ taken' = <<NextReturn(Cur)>>
    /\ backs' = 0
    /\ bumps' = 0
    /\ prev' = IF tx = NoTx THEN NoPrev
               ELSE [has |-> TRUE, nonce |-> tx.nonce, outcome |-> outcome]
    /\ pc' = "sign"
    /\ mined' = NoId
    /\ asked' = NoId
    /\ UNCHANGED <<script, max_retries, base_fees, last_read, plan, calc, nm, max_wait, bump_pct>>

\* The call returns to its caller, which goes on to the next operation of the
\* wallet or to the next wallet.
AfterReturn == IF Len(plan) > 1 THEN "op" ELSE "wallet"

\* sign_transaction, send_raw_transaction succeed; t0 = time.time()
Broadcast ==
    /\ pc = "sign"
    /\ sent' = Append(sent, tx)
    /\ elapsed' = 0
    /\ pc' = "poll"
    /\ UNCHANGED <<script, max_retries, base_fees, mgrs, last_read, plan, tx,
                   attempt, rcpt, outcome, returned, taken, backs, bumps,
                   prev, calc, nm, max_wait, bump_pct,
                   mined, asked>>

\* What may raise before the wait loop: sign_transaction / signed_raw_tx_bytes
\* (SigningError), or send_raw_transaction when the node rejects the
\* submission (SubmitRejected).
Faults == {"SigningError", "SubmitRejected"}

\* The exception swallowed inside the loop, which then signs again.
RaiseTarget_Retry == "sign"

\* Where an exception raised inside send_with_rbf lands: nothing inside the
\* call catches it, main()'s `except Exception` does and continues the loop.
RaiseTarget == "wallet"

\* sign_transaction / signed_raw_tx_bytes / send_raw_transaction raises: the
\* exception leaves send_with_rbf and is caught by main(), which goes on to
\* the next wallet.
BroadcastRaises ==
    /\ pc = "sign"
    /\ \E f \in Faults : outcome' = f
    /\ plan' = <<>>
    /\ pc' = RaiseTarget
    /\ UNCHANGED <<script, max_retries, base_fees, mgrs, last_read, tx,
                   attempt, elapsed, rcpt, sent, returned, taken, backs,
                   bumps, prev, calc, nm, max_wait, bump_pct,
                   mined, asked>>

\* One iteration of `while time.time() - t0 < max_wait`.
Poll ==
    /\ pc = "poll"
    /\ elapsed < max_wait
    /\ asked' = QueryId
    /\ \E a \in NodeAnswers(QueryId, mined) :
          /\ rcpt' = a
          /\ IF Definitive(a)
             THEN /\ outcome' = IF a = "success" THEN "ConfirmedSuccess"
                                ELSE "ConfirmedFailure"
                  /\ returned' = ReturnValue(LastTxHex, outcome')
                  /\ mined' = QueryId
                  /\ plan' = Tail(plan)
                  /\ pc' = AfterReturn
                  /\ UNCHANGED elapsed
             ELSE /\ elapsed' = Min(elapsed + POLL_SLEEP, max_wait)
                  /\ UNCHANGED <<outcome, returned, plan, pc, mined>>
    /\ UNCHANGED <<script, max_retries, base_fees, mgrs, last_read, tx,
                   attempt, sent, taken, backs, bumps, prev, calc, nm,
                   max_wait, bump_pct>>

\* The wait loop ran out: attempt += 1, then give up or replace.
Timeout ==
    /\ pc = "poll"
    /\ elapsed >= max_wait
    /\ attempt' = attempt + 1
    /\ IF BudgetExhausted(attempt + 1, max_retries)
       THEN /\ outcome' = "Abandoned"
            /\ returned' = ReturnValue(LastTxHex, "Abandoned")
            /\ plan' = Tail(plan)
            /\ pc' = AfterReturn
            /\ UNCHANGED <<mgrs, tx, backs, bumps, base_fees>>
       ELSE /\ mgrs' = SetCur(BackCursor(Cur))
            /\ backs' = backs + 1
            /\ tx' = ReplacementTx(tx, BumpFees(FeesOf(tx), BUMP_PCT))
            /\ base_fees' = CallerFees(base_fees, tx')
            /\ bumps' = bumps + 1
            /\ pc' = "sign"
            /\ UNCHANGED <<outcome, returned, plan>>
    /\ UNCHANGED <<script, max_retries, last_read, elapsed, rcpt,
                   sent, taken, prev, calc, nm, max_wait, bump_pct,
                   mined, asked>>

Next ==
    \/ Startup
    \/ WalletStart
    \/ Finish
    \/ SendStart
    \/ Broadcast
    \/ BroadcastRaises
    \/ Poll
    \/ Timeout

Spec == Init /\ [][Next]_vars

\* The run in which signing and submission never raise.  The script is one
\* sequential process and its clock advances, so its next step is always taken.
NextNoFault ==
    \/ Startup
    \/ WalletStart
    \/ Finish
    \/ SendStart
    \/ Broadcast
    \/ Poll
    \/ Timeout

FairNoFault == Init /\ [][NextNoFault]_vars /\ WF_vars(NextNoFault)

-----------------------------------------------------------------------------
(* The fee helpers on their own: suggest_fees, then bump_fees repeatedly *)

enginevars == <<pc, script, max_retries, base_fees, mgrs, last_read, plan, tx,
                attempt, elapsed, rcpt, sent, outcome, returned, taken, backs,
                bumps, prev, max_wait, bump_pct, mined, asked>>

InitFees == EngineInit /\ calc \in CalcInputs /\ nm = NoNm

FeeEstimate ==
    /\ calc.stage = "input"
    /\ calc' = [calc EXCEPT
                   !.stage = "bid",
                   !.bid = SuggestFees(calc.src = "fee_history", calc.hist,
                                       calc.gas, calc.priority)]
    /\ UNCHANGED <<enginevars, nm>>

FeeBump ==
    /\ calc.stage = "bid"
    /\ calc.n < MaxBumps
    /\ calc' = [calc EXCEPT
                   !.before = calc.bid,
                   !.bid = BumpFees(calc.bid, calc.pct),
                   !.n = calc.n + 1]
    /\ UNCHANGED <<enginevars, nm>>

NextFees == FeeEstimate \/ FeeBump

SpecFees == InitFees /\ [][NextFees]_vars

-----------------------------------------------------------------------------
(* One send_with_rbf call on its own, for any arguments a caller may pass *)

\* max_wait, max_retries and bump_pct as passed by a caller: the scripts'
\* values and others, zero and negative ones included.
CallWaits == {0, POLL_SLEEP, MAX_WAIT}
CallRetries == {0 - 1, 0, 2}
CallPcts == {0, BUMP_PCT, MaxPct}

InitCall ==
    /\ pc = "op"
    /\ script = "deposit"
    /\ max_retries \in CallRetries
    /\ max_wait \in CallWaits
    /\ bump_pct \in CallPcts
    /\ base_fees \in {SuggestFees(TRUE, b, b, p) :
                        b \in BaseFeeValues, p \in PriorityValues}
    /\ last_read \in PendingCounts
    /\ mgrs = <<last_read>>
    /\ plan = <<"deposit">>
    /\ tx = NoTx
    /\ attempt = 0
    /\ elapsed = 0
    /\ rcpt = "none"
    /\ sent = <<>>
    /\ outcome = "None"
    /\ returned = <<>>
    /\ taken = <<>>
    /\ backs = 0
    /\ bumps = 0
    /\ prev = NoPrev
    /\ mined = NoId
    /\ asked = NoId
    /\ calc = NoCalc
    /\ nm = NoNm

\* The network mines an attempt the call has already replaced: the
\* replacement was broadcast with the same nonce, and the node may include
\* either.  (That the network mines the attempt of the current round shows
\* as a receipt with a status, in Poll.)
MineSuperseded ==
    /\ pc = "poll"
    /\ mined = NoId
    /\ \E i \in 1..(Len(sent) - 1) : mined' = TxId(Len(mgrs), sent[i])
    /\ UNCHANGED <<pc, script, max_retries, base_fees, mgrs, last_read, plan,
                   tx, attempt, elapsed, rcpt, sent, outcome, returned, taken,
                   backs, bumps, prev, max_wait, bump_pct, asked, calc, nm>>

NextCall ==
    \/ SendStart
    \/ Broadcast
    \/ BroadcastRaises
    \/ Poll
    \/ MineSuperseded
    \/ Timeout

SpecCall == InitCall /\ [][NextCall]_vars

-----------------------------------------------------------------------------
(* A NonceManager on its own, under any sequence of next, back and sync *)

InitNonce ==
    /\ EngineInit
    /\ calc = NoCalc
    /\ nm \in {[cursor |-> n, before |-> n, op |-> "init", read |-> n,
                calls |-> 0] : n \in PendingCounts}

\* NonceManager.next
NmNext ==
    /\ nm.calls < MaxCalls
    /\ nm' = [nm EXCEPT !.cursor = NextCursor(nm.cursor), !.before = nm.cursor,
                        !.op = "next", !.calls = nm.calls + 1]
    /\ UNCHANGED <<enginevars, calc>>

\* NonceManager.back
NmBack ==
    /\ nm.calls < MaxCalls
    /\ nm' = [nm EXCEPT !.cursor = BackCursor(nm.cursor), !.before = nm.cursor,
                        !.op = "back", !.calls = nm.calls + 1]
    /\ UNCHANGED <<enginevars, calc>>

\* NonceManager.sync: the cursor is overwritten by the pending count read.
NmSync ==
    /\ nm.calls < MaxCalls
    /\ \E n \in PendingCounts :
          nm' = [cursor |-> n, before |-> nm.cursor, op |-> "sync",
                 read |-> n, calls |-> nm.calls + 1]
    /\ UNCHANGED <<enginevars, calc>>

NextNonce == NmNext \/ NmBack \/ NmSync

SpecNonce == InitNonce /\ [][NextNonce]_vars

-----------------------------------------------------------------------------
(* Properties *)

InCall == pc \in {"sign", "poll"}
LastSent == sent[Len(sent)]

\* C1: while a send_with_rbf call that took nonce n is in progress, the
\* wallet's nonce cursor equals n + 1, whatever the number of replacement
\* rounds; a replacement round leaves the cursor unchanged.
C1_CursorIsNoncePlusOne == InCall => Cur = tx.nonce + 1

\* C2: on one nonce manager, the nonce of an operation is the nonce of the
\* operation before it plus 1, except after an operation that ended Abandoned,
\* whose nonce the next operation takes again.
C2_NonceSequence ==
    (InCall /\ prev.has) =>
        tx.nonce = IF prev.outcome = "Abandoned" THEN prev.nonce
                   ELSE prev.nonce + 1

\* C3: every transaction broadcast inside one send_with_rbf call, the original
\* and each replacement, carries the nonce returned by the single next() call
\* made at the start of that call.
C3_SameNonceAllAttempts ==
    /\ \A i \in DOMAIN sent : sent[i].nonce = taken[1]
    /\ (InCall \/ outcome \in Terminal) => Len(taken) = 1 /\ tx.nonce = taken[1]

\* A replacement was broadcast under the nonce of the original.
C3_Witness ==
    /\ Len(sent) >= 3
    /\ sent[3].nonce = sent[1].nonce
    /\ sent[3].maxFeePerGas > sent[1].maxFeePerGas

\* C4: an operation that ended Abandoned (no receipt in any round) called
\* back() exactly once.
C4_RollbackOnceOnAbandon == outcome = "Abandoned" => backs = 1

\* C5: a poll that returns a receipt with a status ends the call at once: the
\* call returns the identifier of the attempt polled, and nothing is broadcast,
\* bumped or rolled back by that step or later in the call; a receipt in the
\* first round means no bump and no rollback in the whole call.
WithStatus == {"success", "failure"}
C5_ReceiptStep == pc = "poll" /\ rcpt \notin WithStatus /\ rcpt' \in WithStatus

C5_StepEffect ==
    C5_ReceiptStep =>
        /\ outcome' = IF rcpt' = "success" THEN "ConfirmedSuccess"
                      ELSE "ConfirmedFailure"
        /\ returned' = TxId(Len(mgrs), LastSent)
        /\ pc' \notin {"sign", "poll"}
        /\ UNCHANGED <<sent, tx, mgrs, backs, bumps, attempt>>

C5_NothingAfter ==
    outcome \in Confirmed =>
        \/ UNCHANGED <<sent, tx, mgrs, backs, bumps, attempt, outcome, returned>>
        \/ (pc \in {"op", "wallet"} /\ sent' = <<>> /\ outcome' = "None")

C5_ReceiptEndsCall ==
    /\ [][C5_StepEffect]_vars
    /\ [][C5_NothingAfter]_vars
    /\ [](outcome \in Confirmed /\ Len(sent) = 1 => bumps = 0 /\ backs = 0)

\* A failure receipt ended a call in its second round.
C5_Witness ==
    /\ outcome = "ConfirmedFailure"
    /\ rcpt = "failure"
    /\ Len(sent) = 2
    /\ returned = TxId(Len(mgrs), sent[2])

FeeFields == {"maxPriorityFeePerGas", "maxFeePerGas"}

\* C6 as stated: every bump strictly increases both fee fields, for every bid
\* of non-negative integers and every percentage p > 0.
C6_BumpStrictlyIncreases ==
    calc.n > 0 => \A f \in FeeFields : calc.bid[f] > calc.before[f]

\* C6 amended: a bump never lowers a fee field, and it strictly increases a
\* field x exactly when x * p >= 100; a smaller field is left unchanged by the
\* rounding down.
C6_BumpIncreasesFromThreshold ==
    calc.n > 0 =>
        \A f \in FeeFields :
            /\ calc.bid[f] >= calc.before[f]
            /\ calc.bid[f] > calc.before[f] <=> calc.before[f] * calc.pct >= 100

\* A bump raised maxFeePerGas and left a small maxPriorityFeePerGas as it was.
C6_Witness ==
    /\ calc.n > 0
    /\ calc.pct = BUMP_PCT
    /\ calc.before.maxPriorityFeePerGas > 0
    /\ calc.bid.maxPriorityFeePerGas = calc.before.maxPriorityFeePerGas
    /\ calc.bid.maxFeePerGas > calc.before.maxFeePerGas

\* C7: maxFeePerGas >= maxPriorityFeePerGas for the bid suggest_fees returns,
\* on the fee_history path and on the gas_price fallback, and after any number
\* of bumps.
C7_MaxFeeCoversPriority ==
    calc.stage = "bid" =>
        calc.bid.maxFeePerGas >= calc.bid.maxPriorityFeePerGas

\* The fallback bid with a base fee below the priority tip, bumped twice.
C7_Witness ==
    /\ calc.stage = "bid"
    /\ calc.src = "gas_price"
    /\ calc.gas < calc.priority
    /\ calc.n >= 2
    /\ calc.bid.maxPriorityFeePerGas > calc.priority

\* C8: the nonce cursor of the current wallet is never below the pending
\* count its nonce manager last read from the node.
C8_CursorNotBelowPending == Len(mgrs) > 0 => Cur >= last_read

\* C9: when signing and submission do not raise, every call reaches one of
\* Confirmed-Success, Confirmed-Failure, Abandoned, after at most
\* max_retries + 1 broadcasts.
C9_CallTerminates ==
    /\ [](Len(sent) <= max_retries + 1)
    /\ [](outcome \in Terminal \cup {"None"})
    /\ (InCall ~> outcome \in Terminal)

\* A call ended after using its whole budget of broadcasts.
C9_Witness ==
    /\ outcome \in Terminal
    /\ max_retries = MAX_RETRIES
    /\ Len(sent) = max_retries + 1

\* C10: a call that never sees a receipt ends Abandoned on timeout number
\* max_retries + 1, after exactly max_retries bumps and max_retries + 1
\* broadcasts; with max_retries = 0 that is one broadcast and no bump.
C10_AbandonAfterBudget ==
    /\ outcome = "Abandoned" =>
          /\ bumps = max_retries
          /\ Len(sent) = max_retries + 1
          /\ attempt = max_retries + 1
    /\ InCall =>
          /\ attempt <= max_retries
          /\ bumps = attempt
          /\ Len(sent) = attempt + (IF pc = "poll" THEN 1 ELSE 0)

\* Two rounds without receipt under max_retries = 2, abandoned on the third.
C10_Witness ==
    /\ outcome = "Abandoned"
    /\ max_retries = 2
    /\ bumps = 2
    /\ Len(sent) = 3

\* C11: the value a call returns tells how it ended: a call that ended in one
\* terminal state returns a value that a call with the same last transaction
\* ending in another terminal state would not return.
C11_ResultTellsOutcome ==
    outcome \in Terminal =>
        \A o \in Terminal \ {outcome} :
            ReturnValue(TxId(Len(mgrs), LastSent), o) # returned

\* C12: inside a round, a receipt query that raises or returns no receipt with
\* a status only lets time pass: polling goes on, nothing is bumped, rolled
\* back, broadcast or returned; the wait loop is left only on a receipt with a
\* status or once the wait budget has elapsed.
C12_Swallowed ==
    (pc = "poll" /\ elapsed < max_wait /\ rcpt' \notin WithStatus) =>
        /\ pc' = "poll"
        /\ elapsed' >= elapsed
        /\ UNCHANGED <<sent, tx, mgrs, attempt, bumps, backs, outcome,
                       returned, plan>>

C12_LoopEnds ==
    (pc = "poll" /\ pc' # "poll") => (rcpt' \in WithStatus \/ elapsed >= max_wait)

C12_PollingContinues == [][C12_Swallowed /\ C12_LoopEnds]_vars

\* The round is still polling after a query that raised.
C12_Witness ==
    /\ pc = "poll"
    /\ rcpt = "error"
    /\ elapsed >= 2 * POLL_SLEEP
    /\ elapsed < max_wait
    /\ outcome = "None"

\* C13: a submission the node rejects does not abort the operation while
\* replacement rounds are left: it is fatal only once the retry budget is used.
C13_RejectionRetries == outcome = "SubmitRejected" => attempt >= max_retries

\* C14: when signing fails the call ends at once with the fault: the failed
\* attempt is not broadcast, and no sign, broadcast, bump, rollback or poll
\* follows in that call.
C14_FaultStep ==
    (outcome # "SigningError" /\ outcome' = "SigningError") =>
        /\ pc' \notin {"sign", "poll", "op"}
        /\ UNCHANGED <<sent, tx, mgrs, attempt, bumps, backs>>

C14_NothingAfter ==
    outcome = "SigningError" =>
        \/ UNCHANGED <<sent, tx, mgrs, attempt, bumps, backs, outcome>>
        \/ (pc = "wallet" /\ sent' = <<>> /\ outcome' = "None")

C14_SigningFaultEndsCall ==
    /\ [][C14_FaultStep /\ C14_NothingAfter]_vars
    /\ [](outcome = "SigningError" => ~InCall /\ Len(sent) = attempt)

\* Signing the first replacement failed: one broadcast, one bump, no more.
C14_Witness ==
    /\ outcome = "SigningError"
    /\ attempt = 1
    /\ Len(sent) = 1
    /\ bumps = 1

\* C15: a call started with max_wait <= 0, max_retries < 0 or bump_pct <= 0
\* takes no nonce and broadcasts nothing.
C15_InvalidConfigRejected ==
    (max_wait <= 0 \/ max_retries < 0 \/ bump_pct <= 0) =>
        (taken = <<>> /\ sent = <<>>)

\* C16: back() lowers a positive cursor by exactly one and leaves a zero
\* cursor at zero, so the cursor is never negative under any sequence of
\* next, back and sync.
C16_CursorFloor ==
    /\ nm.cursor >= 0
    /\ nm.op = "back" =>
          nm.cursor = IF nm.before > 0 THEN nm.before - 1 ELSE 0

\* back() called again on a cursor already at zero, pending count zero.
C16_Witness ==
    /\ nm.op = "back"
    /\ nm.before = 0
    /\ nm.cursor = 0
    /\ nm.read = 0
    /\ nm.calls >= 2

\* C17: a step of the operation of one wallet leaves the cursor of every other
\* wallet as it was, and a new wallet's cursor starts at the pending count
\* read for it.
C17_OthersUntouched ==
    /\ Len(mgrs') >= Len(mgrs)
    /\ \A w \in DOMAIN mgrs :
          (w < Len(mgrs) \/ Len(mgrs') > Len(mgrs)) => mgrs'[w] = mgrs[w]
    /\ Len(mgrs') > Len(mgrs) =>
          /\ Len(mgrs') = Len(mgrs) + 1
          /\ mgrs'[Len(mgrs')] = last_read'

C17_AccountsIndependent == [][C17_OthersUntouched]_vars

\* The second wallet's call took a nonce and rolled back; the first wallet's
\* cursor still has the value its own call left.
C17_Witness ==
    /\ Len(mgrs) = 2
    /\ backs >= 1
    /\ mgrs[1] = 2
    /\ mgrs[2] = 0

\* C18: a call returns the identifier of the transaction it broadcast last:
\* on Abandoned that of broadcast number max_retries + 1, on a receipt that of
\* the attempt polled.
C18_ReturnsLastBroadcast ==
    outcome \in Terminal =>
        /\ returned = TxId(Len(mgrs), sent[Len(sent)])
        /\ outcome = "Abandoned" => Len(sent) = max_retries + 1

\* Abandoned after two replacements with fees that differ from the original's.
C18_Witness ==
    /\ outcome = "Abandoned"
    /\ Len(sent) = 3
    /\ sent[3] # sent[1]
    /\ returned = TxId(Len(mgrs), sent[3])
    /\ returned # TxId(Len(mgrs), sent[1])

\* C19: the fees of attempt k are the call's initial fees bumped k times by
\* the bump_pct argument of the call.
C19_BumpUsesArgument ==
    \A k \in DOMAIN sent :
        FeesOf(sent[k]) = IF k = 1 THEN base_fees
                          ELSE BumpFees(FeesOf(sent[k - 1]), bump_pct)

\* C20: the first attempt of every call carries the fee bid computed at
\* startup, and no step after startup changes that bid.
C20_BaseBidKept == pc # "start" => base_fees' = base_fees

C20_NoFeeLeak ==
    /\ [][C20_BaseBidKept]_vars
    /\ [](Len(sent) >= 1 => FeesOf(sent[1]) = base_fees)

\* A call starts from the startup bid after a call that bumped its fees.
C20_Witness ==
    /\ prev.has
    /\ prev.outcome = "Abandoned"
    /\ max_retries >= 1
    /\ base_fees.maxFeePerGas * BUMP_PCT >= 100
    /\ Len(sent) >= 1
    /\ FeesOf(sent[1]) = base_fees

-----------------------------------------------------------------------------
\* C21: within one send_with_rbf call every receipt query uses the identifier
\* of the broadcast of its own round; the identifier of an attempt that has
\* been replaced is not asked for again, so when the network has mined a
\* superseded attempt the call sees no receipt with a status and does not end
\* on it: a receipt ends the call only if it is the receipt of the round's
\* own broadcast.
C21_Current == TxId(Len(mgrs), LastSent)

C21_Superseded ==
    {TxId(Len(mgrs), sent[i]) : i \in 1..(Len(sent) - 1)} \ {C21_Current}

\* A step that calls get_transaction_receipt: it ends the call or lets the
\* clock advance (the network's step does neither).
C21_Query ==
    pc = "poll" /\ elapsed < max_wait /\ (elapsed' # elapsed \/ pc' # "poll")

C21_UsesRoundId ==
    C21_Query => asked' = C21_Current /\ asked' \notin C21_Superseded

C21_SupersededUnseen ==
    C21_Query /\ mined \in C21_Superseded =>
        /\ rcpt' \notin WithStatus
        /\ outcome' = outcome
        /\ pc' = "poll"

C21_EndsOnCurrent ==
    outcome \notin Confirmed /\ outcome' \in Confirmed =>
        /\ mined \in {NoId, C21_Current}
        /\ mined' = C21_Current
        /\ asked' = C21_Current

C21_OnlyCurrentReceipt ==
    [][C21_UsesRoundId /\ C21_SupersededUnseen /\ C21_EndsOnCurrent]_vars

\* A call that replaced an attempt the network then mined: it went on asking
\* for the replacement only and gave up.
C21_Witness ==
    /\ outcome = "Abandoned"
    /\ Len(sent) >= 2
    /\ mined \in C21_Superseded
    /\ asked = C21_Current

====
